---- MODULE Spec2Model ----
(***************************************************************************)
(* A model of texture's corpus classes: BOWCorpus (corpora/bowcorpus.py)   *)
(* and its subclasses ChunkCorpus (corpora/texts/chunkcorpus.py) and       *)
(* DramaCorpus (corpora/texts/dramacorpus.py).                             *)
(*                                                                         *)
(* One corpus object is modelled.  Its attributes are the variables; fit,  *)
(* set_params, an index access, a slice access, the creation of an         *)
(* iterator and one pull from it are the actions.  Python semantics is     *)
(* that of Python 3 (the sources carry the 2to3 idioms list(range(..)),    *)
(* list(zip(..))), so "/" is true division and yields a float.             *)
(*                                                                         *)
(* Python values                                                           *)
(*   - a policy value is a record [t, v]: t is "none", "bool", "int" or    *)
(*     "float"; a float v counts halves (1.0 is v = 2, 0.5 is v = 1);      *)
(*   - a content is a record [kind, val]: "str" (a raw string, val its     *)
(*     words), "list" (a token list), "path" (a string naming a readable   *)
(*     file, val = <<name>>) or "none" (Python's None);                    *)
(*   - a word set (stopwords, gowords) is [isnone, w].                     *)
(***************************************************************************)
EXTENDS Integers, Sequences, FiniteSets, TLC

VARIABLES
    cls,            \* "BOW", "Chunk" or "Drama": the class of the object
    texts,          \* self.texts: sequence of [label, content]
    bound,          \* self.texts is not None (fit has bound a source)
    filenames,      \* self.filenames
    in_memory,      \* self.in_memory, one flag per item
    tokenized,      \* self.tokenized, "None" / "True" / "False" per item
    n_tokens,       \* self.n_tokens, NoCount for None
    tokenize,       \* self.tokenize: "None" / "True" / "False"
    tokenizer,      \* self.tokenizer: "default" or "custom"
    stopwords,      \* self.stopwords
    gowords,        \* self.gowords
    keep_in_memory, \* self.keep_in_memory
    chunksize,      \* self.chunksize   (ChunkCorpus)
    nchunks,        \* self.nchunks
    overlap,        \* self.overlap
    roundedsize,    \* self.roundedsize
    minsize,        \* self.minsize
    upscale,        \* self.upscale
    chunkindices,   \* self.chunkindices, one cache entry per item
    act,            \* self.act        (DramaCorpus): the list, as a set
    scene,          \* self.scene
    speaker,        \* self.speaker
    merge,          \* self.merge
    corpus_tokenize,\* self.corpus_tokenize
    gen,            \* the live generator returned by __iter__, if any
    asked_rounded,  \* history: the roundedsize keyword the caller passed last
    out             \* what the last operation did and returned

bowvars   == <<texts, bound, filenames, in_memory, tokenized, n_tokens>>
cfgvars   == <<tokenize, tokenizer, stopwords, gowords, keep_in_memory>>
polvars   == <<chunksize, nchunks, overlap, roundedsize, minsize, upscale>>
dramavars == <<act, scene, speaker, merge, corpus_tokenize>>
vars      == <<cls, bowvars, cfgvars, polvars, chunkindices, dramavars, gen,
               asked_rounded, out>>

----------------------------------------------------------------------------
(* Bounds of the model *)

MaxChunkSize == 4
MaxOverlap   == 2
MaxIndex     == 2

----------------------------------------------------------------------------
(* Python values *)

PyNone     == [t |-> "none",  v |-> 0]
PyBool(b)  == [t |-> "bool",  v |-> IF b THEN 1 ELSE 0]
PyInt(n)   == [t |-> "int",   v |-> n]
PyFloat(h) == [t |-> "float", v |-> h]

Truthy(x)  == x.t # "none" /\ x.v # 0
IsNone(x)  == x.t = "none"

NoCount    == -1

Str(ws)    == [kind |-> "str",  val |-> ws]
List(ws)   == [kind |-> "list", val |-> ws]
Path(p)    == [kind |-> "path", val |-> <<p>>]
NoContent  == [kind |-> "none", val |-> <<>>]

Pair(l, t) == [label |-> l, content |-> t]

NoWords    == [isnone |-> TRUE,  w |-> {}]
Words(S)   == [isnone |-> FALSE, w |-> S]

Min(a, b)  == IF a < b THEN a ELSE b

\* [w for w in s if w in S]
RECURSIVE Filter(_, _)
Filter(s, S) ==
    IF s = <<>> THEN <<>>
    ELSE IF Head(s) \in S THEN <<Head(s)>> \o Filter(Tail(s), S)
         ELSE Filter(Tail(s), S)

----------------------------------------------------------------------------
(* The environment: the files on disk and the sources handed to fit *)

\* the text of a readable file; a string that names no file cannot be opened
FileText(p) ==
    CASE p = "f1.txt" -> Str(<<"The", "sun">>)
      [] p = "f2.txt" -> Str(<<"Rough", "winds", "the", "buds">>)
      [] OTHER        -> Str(<<>>)

FileSource == << Pair("f1.txt", Path("f1.txt")), Pair("f2.txt", Path("f2.txt")) >>

TextSource == << Pair("a", Str(<<"The", "sun", "the", "sky", "and", "sea">>)),
                 Pair("b", List(<<"u", "v", "the">>)) >>

----------------------------------------------------------------------------
(* nlp/tokenize.py: the default tokenizer lowercases and splits into words *)

Lower(w) ==
    CASE w = "The"   -> "the"
      [] w = "Rough" -> "rough"
      [] OTHER       -> w

RECURSIVE LowerAll(_)
LowerAll(ws) == IF ws = <<>> THEN <<>> ELSE <<Lower(Head(ws))>> \o LowerAll(Tail(ws))

\* self.tokenizer(t): the default one, or a custom one that keeps the case
Tokenizer(name, ws) == IF name = "default" THEN LowerAll(ws) ELSE ws

----------------------------------------------------------------------------
(* A variant of tokenize_preprocess that the properties must tell from it *)

\* tokenize_preprocess with "elif self.gowords": the go list, when there is
\* one, is applied to the tokens as they were before the stop list
tokenize_preprocess_elif(tk, t) ==
    LET t1 == IF tk # "True" THEN Tokenizer(tokenizer, t.val) ELSE t.val
        t2 == IF ~gowords.isnone /\ gowords.w # {}
              THEN Filter(t1, gowords.w)
              ELSE IF ~stopwords.isnone /\ stopwords.w # {}
              THEN Filter(t1, {w \in {t1[k] : k \in 1..Len(t1)} : w \notin stopwords.w})
              ELSE t1
    IN  [content |-> List(t2),
         n       |-> IF tk # "True" THEN Len(t1) ELSE NoCount]

----------------------------------------------------------------------------
(* BOWCorpus.tokenize_preprocess *)

tokenize_preprocess(tk, t) ==
    LET t1 == IF tk # "True" THEN Tokenizer(tokenizer, t.val) ELSE t.val
        t2 == IF ~stopwords.isnone /\ stopwords.w # {}
              THEN Filter(t1, {w \in {t1[k] : k \in 1..Len(t1)} : w \notin stopwords.w})
              ELSE t1
        t3 == IF ~gowords.isnone /\ gowords.w # {}
              THEN Filter(t2, gowords.w)
              ELSE t2
    IN  [content |-> List(t3),
         n       |-> IF tk # "True" THEN Len(t1) ELSE NoCount]

(***************************************************************************)
(* BOWCorpus.process_text(i, l, t).  The result names the exception raised *)
(* ("none" if the call returned), whether open() was called, the pair      *)
(* returned and the new values of the per-item lists.                      *)
(***************************************************************************)
ProcessFailed(e, op) ==
    [err |-> e, opened |-> op, pair |-> Pair("", NoContent),
     texts |-> texts, in_memory |-> in_memory,
     tokenized |-> tokenized, n_tokens |-> n_tokens]

process_text(i, l, t) ==
    IF filenames /\ t.kind # "path"
    THEN \* open(t) on a string that names no file, or on a token list
         ProcessFailed(IF t.kind = "str" THEN "FileNotFoundError" ELSE "TypeError", TRUE)
    ELSE
    LET t0  == IF filenames THEN FileText(t.val[1]) ELSE t
        tk  == IF tokenized[i] = "None"
               THEN (IF t0.kind = "list" THEN "True" ELSE "False")
               ELSE tokenized[i]
        n0  == IF tokenized[i] = "None" /\ t0.kind = "list"
               THEN Len(t0.val) ELSE n_tokens[i]
        pre == tokenize_preprocess(tk, t0)
        t1  == IF tokenize = "True" THEN pre.content
               ELSE IF tokenize = "None" THEN t0
               ELSE IF tk = "True" THEN Str(t0.val) ELSE t0
        n1  == IF tokenize = "True" /\ pre.n # NoCount THEN pre.n ELSE n0
        keep == keep_in_memory /\ ~in_memory[i]
    IN  IF tokenize = "True" /\ tk # "True" /\ t0.kind = "list"
        THEN ProcessFailed("TypeError", filenames)
        ELSE [err       |-> "none",
              opened    |-> filenames,
              pair      |-> Pair(l, t1),
              texts     |-> IF keep THEN [texts EXCEPT ![i] = Pair(l, t1)] ELSE texts,
              in_memory |-> IF keep THEN [in_memory EXCEPT ![i] = TRUE] ELSE in_memory,
              tokenized |-> [tokenized EXCEPT ![i] = tk],
              n_tokens  |-> [n_tokens EXCEPT ![i] = n1]]

----------------------------------------------------------------------------
(* ChunkCorpus.chunk_text *)

\* a cache entry: None, or a list of (start, stop).  Under Python 3 the
\* rounding code divides with "/", so a rounded list holds floats: its
\* numbers are then idx[k][j] / den.
NoEntry == [kind |-> "None", float |-> FALSE, den |-> 1, idx |-> <<>>]
Entry(f, d, ix) == [kind |-> "list", float |-> f, den |-> d, idx |-> ix]

\* '%04d' % n
Pad4(n) ==
    IF n < 10 THEN "000" \o ToString(n)
    ELSE IF n < 100 THEN "00" \o ToString(n)
    ELSE IF n < 1000 THEN "0" \o ToString(n)
    ELSE ToString(n)

\* '%s_%04d' % (label, n)
ChunkLabel(label, n) == label \o "_" \o Pad4(n)

\* text[start:stop] for integers start, stop >= 0 (a slice clamps to the length)
Slice(text, start, stop) ==
    LET a == Min(start, Len(text))
        b == Min(stop, Len(text))
    IN  IF b <= a THEN <<>> ELSE SubSeq(text, a + 1, b)

\* the chunk size and the overlap resolved for a text of text_len tokens
ResolveSize(text_len) ==
    IF chunksize.t = "float" THEN (text_len * chunksize.v) \div 2 ELSE chunksize.v

ResolveOverlap(csize) ==
    IF overlap.t = "float" THEN (overlap.v * csize) \div 2 ELSE overlap.v

\* list(range(0, text_len - csize + 1, step)), for step # 0
Starts(text_len, csize, step) ==
    IF step < 0 \/ text_len - csize + 1 <= 0 THEN <<>>
    ELSE [k \in 1..((text_len - csize) \div step + 1) |-> (k - 1) * step]

\* the (start, stop) list of lines 148-163, for step # 0 and, when rounding,
\* a non-empty list of starts
Boundaries(text_len, csize, step) ==
    LET starts == Starts(text_len, csize, step)
        m      == Len(starts)
        plain  == [k \in 1..m |-> <<starts[k], starts[k] + csize>>]
    IN  IF ~Truthy(roundedsize) THEN Entry(FALSE, 1, plain)
        ELSE
        LET n_leftover == text_len - plain[m][2]
            r          == n_leftover % m
            \* to_add = n_leftover / len(starts) is a float: the lists turn
            \* into floats when it is not 0.0
            isfloat    == n_leftover # 0
            d          == IF isfloat THEN m ELSE 1
            s1 == [k \in 1..m |-> d * starts[k] + (k - 1) * n_leftover]
            e1 == [k \in 1..m |-> d * plain[k][2] + k * n_leftover]
            s2 == [k \in 1..m |-> IF r = 0 THEN s1[k]
                                  ELSE IF k - 1 < r THEN s1[k] + d * (k - 1)
                                  ELSE s1[k] + d * r]
            e2 == [k \in 1..m |-> IF r = 0 THEN e1[k]
                                  ELSE IF k - 1 < r THEN e1[k] + d * k
                                  ELSE e1[k] + d * r]
        IN  Entry(isfloat, d, [k \in 1..m |-> <<s2[k], e2[k]>>])

\* lines 165-173: the pairs yielded from a cache entry
Emit(label, text, entry) ==
    IF entry.float
    THEN [err |-> "TypeError", pairs |-> <<>>]
    ELSE [err   |-> "none",
          pairs |-> [k \in 1..Len(entry.idx) |->
                        Pair(ChunkLabel(label, k - 1),
                             List(Slice(text, entry.idx[k][1], entry.idx[k][2])))]]

ChunkFailed(e) == [err |-> e, pairs |-> <<>>, entry |-> NoEntry]

\* chunk_text(label, text, index) with the generator run to its end: the
\* exception raised, the pairs yielded, the new value of chunkindices[index]
chunk_text(label, text, index) ==
    IF chunkindices[index].kind # "None"
    THEN LET e == Emit(label, text, chunkindices[index])
         IN  [err |-> e.err, pairs |-> e.pairs, entry |-> chunkindices[index]]
    ELSE
    LET text_len == Len(text)
        csize    == ResolveSize(text_len)
        ov       == ResolveOverlap(csize)
        step     == IF ov # 0 THEN csize - ov ELSE csize
    IN  IF text_len = 0 THEN ChunkFailed("UnboundLocalError")
        ELSE IF Truthy(nchunks) THEN ChunkFailed("NameError")
        ELSE IF csize > text_len
        THEN IF Truthy(minsize)
             THEN [err |-> "none", pairs |-> <<Pair(label, NoContent)>>, entry |-> NoEntry]
             ELSE IF Truthy(upscale)
             THEN \* text * factor with the float factor = chunksize / text_len + 1
                  ChunkFailed("TypeError")
             ELSE [err |-> "none", pairs |-> <<Pair(label, List(text))>>, entry |-> NoEntry]
        ELSE IF step = 0 THEN ChunkFailed("ValueError")
        ELSE IF Truthy(roundedsize) /\ Starts(text_len, csize, step) = <<>>
        THEN ChunkFailed("IndexError")
        ELSE LET entry == Boundaries(text_len, csize, step)
                 e     == Emit(label, text, entry)
             IN  [err |-> e.err, pairs |-> e.pairs, entry |-> entry]

----------------------------------------------------------------------------
(* What an operation reports *)

NoGen == [kind |-> "none", pos |-> 0]

\* op: the operation; idx: the item it accessed (0: none); err: the exception
\* it raised; pairs: the pairs it yielded; opened: open() was called;
\* resident, cached: in_memory[idx] and "chunkindices[idx] is not None" when
\* the access began; text: the content process_text returned
Report(op, i, err, pairs, opened, resident, cached, text) ==
    [op |-> op, idx |-> i, err |-> err, pairs |-> pairs, opened |-> opened,
     resident |-> resident, cached |-> cached, text |-> text]

Done(op, err) == Report(op, 0, err, <<>>, FALSE, FALSE, FALSE, NoContent)

----------------------------------------------------------------------------
(* Arguments of set_params: None stands for an omitted keyword *)

NoKw == [tokenize |-> "None", tokenizer |-> "None", stopwords |-> NoWords,
         gowords |-> NoWords, keep_in_memory |-> "None"]

NoPolicy == [chunksize |-> PyNone, nchunks |-> PyNone, overlap |-> PyNone,
             roundedsize |-> PyNone, minsize |-> PyNone, upscale |-> PyNone]

----------------------------------------------------------------------------
(* BOWCorpus.__init__ and ChunkCorpus.__init__ *)

InitBOW ==
    /\ texts = <<>> /\ bound = FALSE /\ filenames = FALSE
    /\ in_memory = <<>> /\ tokenized = <<>> /\ n_tokens = <<>>
    /\ tokenize = "None" /\ tokenizer = "default"
    /\ stopwords = NoWords /\ gowords = NoWords /\ keep_in_memory = FALSE

InitPolicy ==
    /\ chunksize = PyFloat(2) /\ nchunks = PyNone /\ overlap = PyInt(0)
    /\ roundedsize = PyBool(FALSE) /\ minsize = PyBool(FALSE)
    /\ upscale = PyBool(FALSE)
    /\ chunkindices = <<>>

\* the attributes DramaCorpus.__init__ adds (lines 28-35)
InitQuery ==
    /\ act = {} /\ scene = {} /\ speaker = {}
    /\ merge = TRUE /\ corpus_tokenize = FALSE

Init ==
    /\ cls = "BOW"
    /\ InitBOW /\ InitPolicy /\ InitQuery
    /\ gen = NoGen /\ asked_rounded = PyBool(FALSE) /\ out = Done("init", "none")

\* ChunkCorpus.__init__ ends with self.set_params(tokenize=True)
InitChunk ==
    /\ cls = "Chunk"
    /\ InitPolicy /\ InitQuery
    /\ texts = <<>> /\ bound = FALSE /\ filenames = FALSE
    /\ in_memory = <<>> /\ tokenized = <<>> /\ n_tokens = <<>>
    /\ tokenize = "True" /\ tokenizer = "default"
    /\ stopwords = NoWords /\ gowords = NoWords /\ keep_in_memory = FALSE
    /\ gen = NoGen /\ asked_rounded = PyBool(FALSE) /\ out = Done("init", "none")

\* DramaCorpus.__init__ ends with self.set_params(tokenize=False)
InitDrama ==
    /\ cls = "Drama"
    /\ InitPolicy /\ InitQuery
    /\ texts = <<>> /\ bound = FALSE /\ filenames = FALSE
    /\ in_memory = <<>> /\ tokenized = <<>> /\ n_tokens = <<>>
    /\ tokenize = "False" /\ tokenizer = "default"
    /\ stopwords = NoWords /\ gowords = NoWords /\ keep_in_memory = FALSE
    /\ gen = NoGen /\ asked_rounded = PyBool(FALSE) /\ out = Done("init", "none")

----------------------------------------------------------------------------
(* fit(texts, filenames) with a list of (label, content) tuples.  Rebinding *)
(* ends the use of an iterator taken from the corpus before.                *)

\* a variant of fit with "self.in_memory = [False] * len(texts)" in both
\* branches: bound texts do not count as resident
Fit_cold(src, fn) ==
    /\ IF Len(src) = 0
       THEN /\ out' = Done("fit", "SystemExit")
            /\ UNCHANGED <<bowvars, chunkindices, gen>>
       ELSE /\ texts' = src
            /\ bound' = TRUE
            /\ filenames' = (fn \/ filenames)
            /\ in_memory' = [k \in 1..Len(src) |-> FALSE]
            /\ tokenized' = [k \in 1..Len(src) |-> IF fn THEN "False" ELSE "None"]
            /\ n_tokens' = [k \in 1..Len(src) |-> NoCount]
            /\ chunkindices' = IF cls = "Chunk"
                               THEN [k \in 1..Len(src) |-> NoEntry]
                               ELSE chunkindices
            /\ gen' = NoGen
            /\ out' = Done("fit", "none")
    /\ UNCHANGED <<cls, dramavars, cfgvars, polvars, asked_rounded>>

\* a variant of fit with "self.n_tokens = [None]": one count whatever the
\* number of texts
Fit_short(src, fn) ==
    /\ IF Len(src) = 0
       THEN /\ out' = Done("fit", "SystemExit")
            /\ UNCHANGED <<bowvars, chunkindices, gen>>
       ELSE /\ texts' = src
            /\ bound' = TRUE
            /\ filenames' = (fn \/ filenames)
            /\ in_memory' = [k \in 1..Len(src) |-> ~fn]
            /\ tokenized' = [k \in 1..Len(src) |-> IF fn THEN "False" ELSE "None"]
            /\ n_tokens' = <<NoCount>>
            /\ chunkindices' = IF cls = "Chunk"
                               THEN [k \in 1..Len(src) |-> NoEntry]
                               ELSE chunkindices
            /\ gen' = NoGen
            /\ out' = Done("fit", "none")
    /\ UNCHANGED <<cls, dramavars, cfgvars, polvars, asked_rounded>>

Fit(src, fn) ==
    /\ IF Len(src) = 0
       THEN \* sys.exit(): nothing is bound
            /\ out' = Done("fit", "SystemExit")
            /\ UNCHANGED <<bowvars, chunkindices, gen>>
       ELSE /\ texts' = src
            /\ bound' = TRUE
            /\ filenames' = (fn \/ filenames)
            /\ in_memory' = [k \in 1..Len(src) |-> ~fn]
            /\ tokenized' = [k \in 1..Len(src) |-> IF fn THEN "False" ELSE "None"]
            /\ n_tokens' = [k \in 1..Len(src) |-> NoCount]
            /\ chunkindices' = IF cls = "Chunk"
                               THEN [k \in 1..Len(src) |-> NoEntry]
                               ELSE chunkindices
            /\ gen' = NoGen
            /\ out' = Done("fit", "none")
    /\ UNCHANGED <<cls, dramavars, cfgvars, polvars, asked_rounded>>

\* a dict source {label: text}: its keys in order, and the text of each
Dict(ks, v) == [keys |-> ks, val |-> v]

EmptyDict == Dict(<<>>, <<>>)

TextDict == Dict(<<"a", "b">>,
                 [l \in {"a", "b"} |-> IF l = "a" THEN TextSource[1].content
                                                   ELSE TextSource[2].content])

\* line 77: [(k, texts[k]) for k in texts]
DictItems(d) == [k \in 1..Len(d.keys) |-> Pair(d.keys[k], d.val[d.keys[k]])]

\* fit(texts, filenames) with a dict
FitDict(d, fn) == Fit(DictItems(d), fn)

\* glob.glob(pattern): the files on disk that the pattern matches
Glob(pattern) ==
    IF pattern = "*.txt" THEN <<"f1.txt", "f2.txt">> ELSE <<>>

\* os.path.split(f)[1]: the names the patterns match have no directory
\* part, so each is its own label
Basename(f) == f

(***************************************************************************)
(* fit(texts, filenames) with a single string.  The empty string is an     *)
(* empty source.  Any other string is taken as a pattern of file names     *)
(* whether filenames is set or not (lines 88-90): self.filenames is set,   *)
(* the pattern is expanded, and texts[0] is read to see whether labels are *)
(* to be generated, which raises IndexError when no file matches.          *)
(***************************************************************************)
FitPattern(pattern, fn) ==
    /\ IF pattern = ""
       THEN /\ out' = Done("fit", "SystemExit")
            /\ UNCHANGED <<bowvars, chunkindices, gen>>
       ELSE IF Glob(pattern) = <<>>
       THEN /\ filenames' = TRUE
            /\ out' = Done("fit", "IndexError")
            /\ UNCHANGED <<texts, bound, in_memory, tokenized, n_tokens,
                           chunkindices, gen>>
       ELSE LET names == Glob(pattern)
            IN  /\ texts' = [k \in 1..Len(names) |->
                                Pair(Basename(names[k]), Path(names[k]))]
                /\ bound' = TRUE
                /\ filenames' = TRUE
                /\ in_memory' = [k \in 1..Len(names) |-> FALSE]
                /\ tokenized' = [k \in 1..Len(names) |-> "False"]
                /\ n_tokens' = [k \in 1..Len(names) |-> NoCount]
                /\ chunkindices' = IF cls = "Chunk"
                                   THEN [k \in 1..Len(names) |-> NoEntry]
                                   ELSE chunkindices
                /\ gen' = NoGen
                /\ out' = Done("fit", "none")
    /\ UNCHANGED <<cls, dramavars, cfgvars, polvars, asked_rounded>>

----------------------------------------------------------------------------
(* set_params *)

\* BOWCorpus.set_params: the assignments
bow_set_params(kw) ==
    /\ tokenize' = IF kw.tokenize = "None" THEN tokenize ELSE kw.tokenize
    /\ tokenizer' = IF kw.tokenizer = "None" THEN tokenizer ELSE kw.tokenizer
    /\ stopwords' = IF kw.stopwords.isnone THEN stopwords ELSE kw.stopwords
    /\ gowords' = IF kw.gowords.isnone THEN gowords ELSE kw.gowords
    /\ keep_in_memory' = IF kw.keep_in_memory = "None" THEN keep_in_memory
                         ELSE kw.keep_in_memory = "True"

BOWSetParams(kw) ==
    /\ cls = "BOW"
    /\ bow_set_params(kw)
    /\ out' = Done("set_params", "none")
    /\ UNCHANGED <<cls, dramavars, bowvars, polvars, chunkindices, gen, asked_rounded>>

\* the value set_params stores in self.roundedsize (line 79)
NewRoundedSize(a) == IF IsNone(a.roundedsize) THEN roundedsize ELSE a.overlap

\* the condition under which set_params resets the cache (line 84)
ResetCache(a) ==
    \/ Truthy(a.chunksize) \/ Truthy(a.nchunks) \/ Truthy(a.overlap)
    \/ Truthy(a.roundedsize) \/ Truthy(a.minsize) \/ Truthy(a.upscale)

ChunkSetParams(a, kw) ==
    /\ cls = "Chunk"
    /\ chunksize' = IF IsNone(a.chunksize) THEN chunksize ELSE a.chunksize
    /\ nchunks' = IF IsNone(a.nchunks) THEN nchunks ELSE a.nchunks
    /\ overlap' = IF IsNone(a.overlap) THEN overlap ELSE a.overlap
    /\ roundedsize' = NewRoundedSize(a)
    /\ asked_rounded' = IF IsNone(a.roundedsize) THEN asked_rounded ELSE a.roundedsize
    /\ minsize' = IF IsNone(a.minsize) THEN minsize ELSE a.minsize
    /\ upscale' = IF IsNone(a.upscale) THEN upscale ELSE a.upscale
    /\ IF ResetCache(a) /\ ~bound
       THEN \* len(self.texts) on None: the call ends before the parent's part
            /\ out' = Done("set_params", "TypeError")
            /\ UNCHANGED <<cfgvars, chunkindices>>
       ELSE /\ chunkindices' = IF ResetCache(a)
                               THEN [k \in 1..Len(texts) |-> NoEntry]
                               ELSE chunkindices
            /\ bow_set_params(kw)
            /\ out' = Done("set_params", "none")
    /\ UNCHANGED <<cls, dramavars, bowvars, gen>>

----------------------------------------------------------------------------
(* Accesses *)

\* the assignments process_text makes
\* process_text setting the residency flag without storing the pair
Processed_flagonly(p) ==
    /\ texts' = texts
    /\ in_memory' = p.in_memory
    /\ tokenized' = p.tokenized
    /\ n_tokens' = p.n_tokens
    /\ UNCHANGED <<bound, filenames>>

Processed(p) ==
    /\ texts' = p.texts
    /\ in_memory' = p.in_memory
    /\ tokenized' = p.tokenized
    /\ n_tokens' = p.n_tokens
    /\ UNCHANGED <<bound, filenames>>

\* BOWCorpus.__getitem__(i) with its generator consumed: list(corpus[i])
GetItem(i) ==
    /\ cls = "BOW"
    /\ IF ~bound \/ i > Len(texts)
       THEN /\ out' = Done("getitem", IF bound THEN "IndexError" ELSE "TypeError")
            /\ UNCHANGED bowvars
       ELSE LET p == process_text(i, texts[i].label, texts[i].content)
            IN  /\ Processed(p)
                /\ out' = Report("getitem", i, p.err,
                                 IF p.err = "none" THEN <<p.pair>> ELSE <<>>,
                                 p.opened, in_memory[i], FALSE, p.pair.content)
    /\ UNCHANGED <<cls, dramavars, cfgvars, polvars, chunkindices, gen, asked_rounded>>

\* iter(corpus): a generator object; nothing runs until it is pulled
Iter ==
    /\ gen' = [kind |-> "iter", pos |-> 1]
    /\ out' = Done("iter", "none")
    /\ UNCHANGED <<cls, dramavars, bowvars, cfgvars, polvars, chunkindices, asked_rounded>>

\* one pull from BOWCorpus.__iter__
IterNext ==
    /\ cls = "BOW"
    /\ gen.kind = "iter"
    /\ IF ~bound
       THEN /\ gen' = NoGen
            /\ out' = Done("next", "TypeError")
            /\ UNCHANGED bowvars
       ELSE IF gen.pos > Len(texts)
       THEN /\ gen' = NoGen
            /\ out' = Done("next", "StopIteration")
            /\ UNCHANGED bowvars
       ELSE LET i == gen.pos
                p == process_text(i, texts[i].label, texts[i].content)
            IN  /\ Processed(p)
                /\ gen' = IF p.err = "none" THEN [gen EXCEPT !.pos = i + 1] ELSE NoGen
                /\ out' = Report("next", i, p.err,
                                 IF p.err = "none" THEN <<p.pair>> ELSE <<>>,
                                 p.opened, in_memory[i], FALSE, p.pair.content)
    /\ UNCHANGED <<cls, dramavars, cfgvars, polvars, chunkindices, asked_rounded>>

\* a slice object: start, stop and step are None or an int
Key(a, b, c) == [start |-> a, stop |-> b, step |-> c]

\* lines 175-177: the defaults taken for a missing (or zero) start, stop, step
SliceStart(key) == IF Truthy(key.start) THEN key.start.v ELSE 0
SliceStop(key)  == IF Truthy(key.stop) THEN key.stop.v ELSE Len(texts)
SliceStep(key)  == IF Truthy(key.step) THEN key.step.v ELSE 1

\* list(range(start, stop, step)) of line 178, for step >= 1
SliceRange(key) ==
    LET a == SliceStart(key)
        b == SliceStop(key)
        c == SliceStep(key)
    IN  IF b <= a THEN <<>>
        ELSE [k \in 1..((b - a + c - 1) \div c) |-> a + (k - 1) * c]

\* corpus[start:stop:step] on a BOWCorpus: __getitem__ is a generator
\* function, so the call returns a generator and runs none of its body;
\* pos counts the pairs the generator has yielded
GetSlice(key) ==
    /\ cls = "BOW"
    /\ gen' = [kind |-> "slice", pos |-> 0, key |-> key]
    /\ out' = Done("getslice", "none")
    /\ UNCHANGED <<cls, dramavars, bowvars, cfgvars, polvars, chunkindices, asked_rounded>>

\* one pull from the generator of a slice
SliceNext ==
    /\ cls = "BOW"
    /\ gen.kind = "slice"
    /\ IF ~bound /\ ~Truthy(gen.key.stop)
       THEN \* len(self.texts) on None
            /\ gen' = NoGen
            /\ out' = Done("slicenext", "TypeError")
            /\ UNCHANGED bowvars
       ELSE IF gen.pos >= Len(SliceRange(gen.key))
       THEN /\ gen' = NoGen
            /\ out' = Done("slicenext", "StopIteration")
            /\ UNCHANGED bowvars
       ELSE IF ~bound \/ SliceRange(gen.key)[gen.pos + 1] >= Len(texts)
       THEN \* self.texts[i] on None, or past the end of the list
            /\ gen' = NoGen
            /\ out' = Done("slicenext", IF bound THEN "IndexError" ELSE "TypeError")
            /\ UNCHANGED bowvars
       ELSE LET i == SliceRange(gen.key)[gen.pos + 1] + 1
                p == process_text(i, texts[i].label, texts[i].content)
            IN  /\ Processed(p)
                /\ gen' = IF p.err = "none" THEN [gen EXCEPT !.pos = @ + 1] ELSE NoGen
                /\ out' = Report("slicenext", i, p.err,
                                 IF p.err = "none" THEN <<p.pair>> ELSE <<>>,
                                 p.opened, in_memory[i], FALSE, p.pair.content)
    /\ UNCHANGED <<cls, dramavars, cfgvars, polvars, chunkindices, asked_rounded>>

\* ChunkCorpus.__getitem__(i): unpacking the parent's generator into
\* (label, text) runs process_text and then raises ValueError
ChunkGetItem(i) ==
    /\ cls = "Chunk"
    /\ IF ~bound \/ i > Len(texts)
       THEN /\ out' = Done("getitem", IF bound THEN "IndexError" ELSE "TypeError")
            /\ UNCHANGED bowvars
       ELSE LET p == process_text(i, texts[i].label, texts[i].content)
            IN  /\ Processed(p)
                /\ out' = Report("getitem", i,
                                 IF p.err = "none" THEN "ValueError" ELSE p.err,
                                 <<>>, p.opened, in_memory[i],
                                 chunkindices[i].kind # "None", p.pair.content)
    /\ UNCHANGED <<cls, dramavars, cfgvars, polvars, chunkindices, gen, asked_rounded>>

\* the lists of a sequence of lists, one after the other
RECURSIVE Flatten(_)
Flatten(ss) == IF ss = <<>> THEN <<>> ELSE Head(ss) \o Flatten(Tail(ss))

(***************************************************************************)
(* ChunkCorpus.__getitem__(slice).  The method is an ordinary function: it *)
(* consumes the parent's slice generator to its end, hands each item to    *)
(* chunk_text with its position in the slice (the index enumerate counts   *)
(* from 0) as the cache index, and returns the list of all pairs.  The     *)
(* items of a slice are distinct and so are their positions, so the e-th   *)
(* item's processing reads nothing that an earlier one wrote.              *)
(***************************************************************************)
ChunkGetSlice(key) ==
    /\ cls = "Chunk"
    /\ IF ~bound /\ ~Truthy(key.stop)
       THEN \* len(self.texts) on None
            /\ out' = Done("getslice", "TypeError")
            /\ UNCHANGED <<bowvars, chunkindices>>
       ELSE
       \* rng: the indices asked; m: the positions whose item exists
       \* (self.texts[i] raises at the next); p, c: what process_text and
       \* chunk_text do at each position
       \E rng \in {SliceRange(key)} :
       \E m \in {IF ~bound THEN 0
                  ELSE Cardinality({e \in 1..Len(rng) : rng[e] < Len(texts)})} :
       \E p \in {[e \in 1..m |-> process_text(rng[e] + 1, texts[rng[e] + 1].label,
                                                texts[rng[e] + 1].content)]} :
       \E c \in {[e \in 1..m |->
                    IF p[e].err = "none"
                    THEN chunk_text(p[e].pair.label, p[e].pair.content.val, e)
                    ELSE ChunkFailed(p[e].err)]} :
       \* last: the last position that ran, the first that raised if one did
       \E last \in {IF \A e \in 1..m : c[e].err = "none" THEN m
                     ELSE CHOOSE e \in 1..m :
                              /\ c[e].err # "none"
                              /\ \A d \in 1..(e - 1) : c[d].err = "none"} :
       \E raised \in {IF last >= 1 /\ c[last].err # "none" THEN c[last].err
                       ELSE IF m < Len(rng)
                       THEN (IF bound THEN "IndexError" ELSE "TypeError")
                       ELSE "none"} :
       \* at[k]: the position at which item k was processed, 0 if it was not
       \E at \in {[k \in 1..Len(texts) |->
                     IF \E e \in 1..last : rng[e] + 1 = k
                     THEN CHOOSE e \in 1..last : rng[e] + 1 = k ELSE 0]} :
           /\ texts' = [k \in 1..Len(texts) |->
                           IF at[k] # 0 THEN p[at[k]].texts[k] ELSE texts[k]]
           /\ in_memory' = [k \in 1..Len(texts) |->
                           IF at[k] # 0 THEN p[at[k]].in_memory[k] ELSE in_memory[k]]
           /\ tokenized' = [k \in 1..Len(texts) |->
                           IF at[k] # 0 THEN p[at[k]].tokenized[k] ELSE tokenized[k]]
           /\ n_tokens' = [k \in 1..Len(texts) |->
                           IF at[k] # 0 THEN p[at[k]].n_tokens[k] ELSE n_tokens[k]]
           /\ UNCHANGED <<bound, filenames>>
           /\ chunkindices' = [e \in 1..Len(chunkindices) |->
                                  IF e <= last /\ p[e].err = "none"
                                  THEN c[e].entry ELSE chunkindices[e]]
           /\ out' = Report("getslice", 0, raised,
                            IF raised = "none" THEN Flatten([e \in 1..m |-> c[e].pairs])
                            ELSE <<>>,
                            FALSE, FALSE, FALSE, NoContent)
    /\ UNCHANGED <<cls, dramavars, cfgvars, polvars, gen, asked_rounded>>

\* ChunkCorpus.__iter__: the pulls that yield the chunks of one item
ChunkNext ==
    /\ cls = "Chunk"
    /\ gen.kind = "iter"
    /\ IF ~bound
       THEN /\ gen' = NoGen
            /\ out' = Done("next", "TypeError")
            /\ UNCHANGED <<bowvars, chunkindices>>
       ELSE IF gen.pos > Len(texts)
       THEN /\ gen' = NoGen
            /\ out' = Done("next", "StopIteration")
            /\ UNCHANGED <<bowvars, chunkindices>>
       ELSE LET i == gen.pos
                p == process_text(i, texts[i].label, texts[i].content)
                c == chunk_text(p.pair.label, p.pair.content.val, i)
                e == IF p.err # "none" THEN p.err ELSE c.err
            IN  /\ Processed(p)
                /\ chunkindices' = IF p.err = "none"
                                   THEN [chunkindices EXCEPT ![i] = c.entry]
                                   ELSE chunkindices
                /\ gen' = IF e = "none" THEN [gen EXCEPT !.pos = i + 1] ELSE NoGen
                /\ out' = Report("next", i, e,
                                 IF e = "none" THEN c.pairs ELSE <<>>,
                                 p.opened, in_memory[i],
                                 chunkindices[i].kind # "None", p.pair.content)
    /\ UNCHANGED <<cls, dramavars, cfgvars, polvars, asked_rounded>>

----------------------------------------------------------------------------
(* DramaCorpus *)

\* a record of a parsed play: a dict with the keys in has
Rec(ty, has, a, sc, sp, tx) ==
    [type |-> ty, has |-> has, act |-> a, scene |-> sc, speaker |-> sp, text |-> tx]

\* the raw text of a play, and the records the parser makes of it
PlayText == Str(<<"<hamlet/>">>)

Play ==
    << Rec("character", {"name", "gender", "short"}, 0, 0, "", <<>>),
       Rec("location", {"act", "scene", "text"}, 1, 1, "", <<"Elsinore">>),
       Rec("speech", {"act", "scene", "text", "speaker"}, 1, 1, "HAM", <<"To", "be">>),
       Rec("stagedir", {"act", "scene", "text"}, 2, 1, "", <<"Exit">>),
       Rec("speech", {"act", "scene", "text", "speaker"}, 2, 1, "OPH", <<"my", "lord">>) >>

PlaySource == << Pair("hamlet", PlayText), Pair("junk", Str(<<"junk">>)) >>

\* self.play_parser(l, t), the caller's parser: a list of records, empty for
\* a text that is not a play
play_parser(l, t) == IF t = PlayText THEN Play ELSE <<>>

\* a list of records, and a list of (speaker, text) tuples, as contents
Records(rs) == [kind |-> "records", val |-> rs]
Tuples(ts)  == [kind |-> "tuples", val |-> ts]

\* DramaCorpus.parse_query(t).  self.act, self.scene and self.speaker are
\* lists from __init__ on and set_params never stores None, so each of the
\* three "!= None" tests passes.
parse_query(t) ==
    LET InAct(e)     == "act" \in e.has /\ e.act \in act
        InScene(e)   == "scene" \in e.has /\ e.scene \in scene
        InSpeaker(e) == "speaker" \in e.has /\ e.speaker \in speaker
        HasText(e)   == "text" \in e.has
        HasBoth(e)   == "text" \in e.has /\ "speaker" \in e.has
        t3 == SelectSeq(SelectSeq(SelectSeq(t, InAct), InScene), InSpeaker)
        mt == SelectSeq(t3, HasText)
        st == SelectSeq(t3, HasBoth)
    IN  IF merge
        THEN \* ' '.join of the texts: the words of one after those of the other
             Str(Flatten([k \in 1..Len(mt) |-> mt[k].text]))
        ELSE Tuples([k \in 1..Len(st) |-> <<st[k].speaker, st[k].text>>])

\* DramaCorpus.process_text(i, l, t), reported as process_text is
drama_process_text(i, l, t) ==
    IF ~in_memory[i] /\ t.kind # "path"
    THEN ProcessFailed(IF t.kind = "str" THEN "FileNotFoundError" ELSE "TypeError", TRUE)
    ELSE
    LET rs   == IF ~in_memory[i] THEN play_parser(l, FileText(t.val[1]))
                ELSE play_parser(texts[i].label, texts[i].content)
        keep == keep_in_memory /\ ~in_memory[i]
        q    == parse_query(rs)
        tok  == corpus_tokenize /\ q.kind = "str"
        pre  == tokenize_preprocess(tokenized[i], q)
    IN  [err       |-> "none",
         opened    |-> ~in_memory[i],
         pair      |-> Pair(l, IF tok THEN pre.content ELSE q),
         texts     |-> IF keep THEN [texts EXCEPT ![i] = Pair(l, Records(rs))] ELSE texts,
         in_memory |-> IF keep THEN [in_memory EXCEPT ![i] = TRUE] ELSE in_memory,
         tokenized |-> tokenized,
         n_tokens  |-> IF tok /\ pre.n # NoCount
                       THEN [n_tokens EXCEPT ![i] = pre.n] ELSE n_tokens]

\* the arguments of DramaCorpus.set_params: a list (as a set) or None
NoArg    == [isnone |-> TRUE, w |-> {}]
Arg(S)   == [isnone |-> FALSE, w |-> S]
NoQuery  == [act |-> NoArg, scene |-> NoArg, speaker |-> NoArg, merge |-> "None",
             kw |-> NoKw]

\* DramaCorpus.set_params(act, scene, speaker, merge, **kwargs)
DramaSetParams(c) ==
    /\ cls = "Drama"
    /\ act' = IF c.act.isnone THEN act ELSE c.act.w
    /\ scene' = IF c.scene.isnone THEN scene ELSE c.scene.w
    /\ speaker' = IF c.speaker.isnone THEN speaker ELSE c.speaker.w
    /\ merge' = IF c.merge = "None" THEN merge ELSE c.merge = "True"
    /\ corpus_tokenize' = (corpus_tokenize \/ c.kw.tokenize = "True")
    /\ bow_set_params(IF c.kw.tokenize = "True"
                      THEN [c.kw EXCEPT !.tokenize = "None"] ELSE c.kw)
    /\ out' = Done("set_params", "none")
    /\ UNCHANGED <<cls, bowvars, polvars, chunkindices, gen, asked_rounded>>

\* BOWCorpus.__getitem__(i) on a DramaCorpus, its generator consumed
DramaGetItem(i) ==
    /\ cls = "Drama"
    /\ IF ~bound \/ i > Len(texts)
       THEN /\ out' = Done("getitem", IF bound THEN "IndexError" ELSE "TypeError")
            /\ UNCHANGED bowvars
       ELSE LET p == drama_process_text(i, texts[i].label, texts[i].content)
            IN  /\ Processed(p)
                /\ out' = Report("getitem", i, p.err,
                                 IF p.err = "none" THEN <<p.pair>> ELSE <<>>,
                                 p.opened, in_memory[i], FALSE, p.pair.content)
    /\ UNCHANGED <<cls, dramavars, cfgvars, polvars, chunkindices, gen, asked_rounded>>

\* one pull from BOWCorpus.__iter__ on a DramaCorpus
DramaNext ==
    /\ cls = "Drama"
    /\ gen.kind = "iter"
    /\ IF ~bound
       THEN /\ gen' = NoGen
            /\ out' = Done("next", "TypeError")
            /\ UNCHANGED bowvars
       ELSE IF gen.pos > Len(texts)
       THEN /\ gen' = NoGen
            /\ out' = Done("next", "StopIteration")
            /\ UNCHANGED bowvars
       ELSE LET i == gen.pos
                p == drama_process_text(i, texts[i].label, texts[i].content)
            IN  /\ Processed(p)
                /\ gen' = IF p.err = "none" THEN [gen EXCEPT !.pos = i + 1] ELSE NoGen
                /\ out' = Report("next", i, p.err,
                                 IF p.err = "none" THEN <<p.pair>> ELSE <<>>,
                                 p.opened, in_memory[i], FALSE, p.pair.content)
    /\ UNCHANGED <<cls, dramavars, cfgvars, polvars, chunkindices, asked_rounded>>

----------------------------------------------------------------------------
(* The calls the environment makes *)

\* one keyword per call, and the pair the tests pass together
BOWKwArgs ==
    {[NoKw EXCEPT !.tokenize = v] : v \in {"True", "False"}}
    \cup {[NoKw EXCEPT !.keep_in_memory = v] : v \in {"True", "False"}}
    \cup {[NoKw EXCEPT !.tokenize = "True", !.keep_in_memory = "True"]}
    \cup {[NoKw EXCEPT !.stopwords = Words({"the"})]}
    \cup {[NoKw EXCEPT !.gowords = Words({"the", "rough", "sun"})]}
    \cup {[NoKw EXCEPT !.tokenizer = "custom"]}

BOWSources ==
    {[src |-> FileSource, fn |-> TRUE],
     [src |-> TextSource, fn |-> FALSE],
     [src |-> <<>>,       fn |-> FALSE]}

\* the strings handed to fit: empty, a pattern that matches the files on
\* disk, a pattern that matches none
Patterns == {"", "*.txt", "none/*.txt"}

\* the slices asked: corpus[:k], corpus[k:], corpus[1:k] as in the tests,
\* and corpus[::2]
SliceKeys ==
    {Key(PyNone, PyInt(k), PyNone) : k \in 0..MaxIndex}
    \cup {Key(PyInt(k), PyNone, PyNone) : k \in 1..(MaxIndex - 1)}
    \cup {Key(PyInt(1), PyInt(MaxIndex), PyNone), Key(PyNone, PyNone, PyInt(2))}

Next ==
    \/ \E s \in BOWSources : Fit(s.src, s.fn)
    \/ \E d \in {EmptyDict, TextDict} : FitDict(d, FALSE)
    \/ \E pattern \in Patterns, fn \in BOOLEAN : FitPattern(pattern, fn)
    \/ \E kw \in BOWKwArgs : BOWSetParams(kw)
    \/ \E i \in 1..MaxIndex : GetItem(i)
    \/ Iter
    \/ IterNext
    \/ \E key \in SliceKeys : GetSlice(key)
    \/ SliceNext

Spec == Init /\ [][Next]_vars

\* one policy keyword per call, and overlap together with roundedsize
PolicyArgs ==
    {[NoPolicy EXCEPT !.chunksize = PyInt(c)] : c \in 1..MaxChunkSize}
    \cup {[NoPolicy EXCEPT !.overlap = PyInt(o)] : o \in 0..MaxOverlap}
    \cup {[NoPolicy EXCEPT !.roundedsize = PyBool(b)] : b \in BOOLEAN}
    \cup {[NoPolicy EXCEPT !.overlap = PyInt(o), !.roundedsize = PyBool(TRUE)] :
             o \in 0..MaxOverlap}
    \cup {[NoPolicy EXCEPT !.chunksize = PyInt(c), !.overlap = PyInt(0),
                            !.roundedsize = PyBool(TRUE)] : c \in 1..MaxChunkSize}
    \cup {[NoPolicy EXCEPT !.minsize = PyBool(b)] : b \in BOOLEAN}
    \cup {[NoPolicy EXCEPT !.upscale = PyBool(b)] : b \in BOOLEAN}
    \cup {[NoPolicy EXCEPT !.nchunks = PyInt(2)]}

ChunkKwArgs == {NoKw, [NoKw EXCEPT !.stopwords = Words({"the", "u"})]}

ChunkCalls ==
    {[a |-> a, kw |-> NoKw] : a \in PolicyArgs}
    \cup {[a |-> NoPolicy, kw |-> kw] : kw \in ChunkKwArgs \ {NoKw}}

ChunkSources ==
    {[src |-> TextSource, fn |-> FALSE],
     [src |-> <<>>,       fn |-> FALSE]}

NextChunk ==
    \/ \E s \in ChunkSources : Fit(s.src, s.fn)
    \/ \E c \in ChunkCalls : ChunkSetParams(c.a, c.kw)
    \/ \E i \in 1..MaxIndex : ChunkGetItem(i)
    \/ Iter
    \/ ChunkNext

SpecChunk == InitChunk /\ [][NextChunk]_vars

\* a ChunkCorpus accessed by slices as well, under integer chunk sizes from
\* 0, integer overlaps and a change of the stopwords
SliceCalls ==
    {[a |-> [NoPolicy EXCEPT !.chunksize = PyInt(c)], kw |-> NoKw] : c \in 0..MaxChunkSize}
    \cup {[a |-> [NoPolicy EXCEPT !.overlap = PyInt(o)], kw |-> NoKw] : o \in 0..MaxOverlap}
    \cup {[a |-> NoPolicy, kw |-> kw] : kw \in ChunkKwArgs \ {NoKw}}
    \* a stop list that removes every token of item b
    \cup {[a |-> NoPolicy, kw |-> [NoKw EXCEPT !.stopwords = Words({"the", "u", "v"})]]}

NextSlice ==
    \/ \E s \in ChunkSources : Fit(s.src, s.fn)
    \/ \E c \in SliceCalls : ChunkSetParams(c.a, c.kw)
    \/ \E i \in 1..MaxIndex : ChunkGetItem(i)
    \/ \E key \in SliceKeys : ChunkGetSlice(key)
    \/ Iter
    \/ ChunkNext

SpecSlice == InitChunk /\ [][NextSlice]_vars

\* a DramaCorpus bound to plays held in memory
DramaCalls ==
    {[NoQuery EXCEPT !.act = Arg(S)] : S \in {{}, {1}, {1, 2}}}
    \cup {[NoQuery EXCEPT !.scene = Arg(S)] : S \in {{}, {1}}}
    \cup {[NoQuery EXCEPT !.speaker = Arg(S)] : S \in {{}, {"HAM"}, {"HAM", "OPH"}}}
    \cup {[NoQuery EXCEPT !.merge = v] : v \in {"True", "False"}}
    \cup {[NoQuery EXCEPT !.kw = [NoKw EXCEPT !.tokenize = v]] : v \in {"True", "False"}}
    \cup {[NoQuery EXCEPT !.kw = [NoKw EXCEPT !.stopwords = Words({"the", "to"})]]}

NextDrama ==
    \/ Fit(PlaySource, FALSE)
    \/ \E c \in DramaCalls : DramaSetParams(c)
    \/ \E i \in 1..MaxIndex : DramaGetItem(i)
    \/ Iter
    \/ DramaNext

SpecDrama == InitDrama /\ [][NextDrama]_vars

\* a corpus of either class, a BOWCorpus with every call of Next and a
\* ChunkCorpus with a few policies and every kind of access
ListCalls ==
    {[a |-> [NoPolicy EXCEPT !.chunksize = PyInt(MaxChunkSize \div 2)], kw |-> NoKw],
     [a |-> [NoPolicy EXCEPT !.overlap = PyInt(1)], kw |-> NoKw],
     [a |-> NoPolicy, kw |-> [NoKw EXCEPT !.stopwords = Words({"the", "u"})]]}

NextLists ==
    \/ Next
    \/ \E c \in ListCalls : ChunkSetParams(c.a, c.kw)
    \/ \E i \in 1..MaxIndex : ChunkGetItem(i)
    \/ \E key \in SliceKeys : ChunkGetSlice(key)
    \/ ChunkNext

SpecLists == (Init \/ InitChunk) /\ [][NextLists]_vars

----------------------------------------------------------------------------
(* Vocabulary of the properties *)

\* the last operation ran process_text on item out.idx
Accessed == out.op \in {"getitem", "next", "slicenext"} /\ out.idx # 0

\* the last operation was a pull from ChunkCorpus.__iter__ that handed the
\* token list out.text.val of item out.idx to chunk_text
Chunked == cls = "Chunk" /\ out.op = "next" /\ out.idx # 0 /\ out.text.kind = "list"

\* the corpus holds the items of src
BoundFrom(src) ==
    /\ bound
    /\ Len(texts) = Len(src)
    /\ \A k \in 1..Len(src) : texts[k].label = src[k].label

\* the tokens of a sequence of yielded pairs, one after the other
RECURSIVE Contents(_)
Contents(pairs) ==
    IF pairs = <<>> THEN <<>>
    ELSE Head(pairs).content.val \o Contents(Tail(pairs))

\* the generator goes on with the item after out.idx
GoesOn == gen = [kind |-> "iter", pos |-> out.idx + 1]

----------------------------------------------------------------------------
(* C1: with keep_in_memory set on a file-backed corpus, an access to an    *)
(* item that an earlier access made resident opens no file and returns the *)
(* pair stored by that earlier access.                                     *)
C1_SecondAccessServesStored ==
    (Accessed /\ filenames /\ BoundFrom(FileSource) /\ keep_in_memory /\ out.resident)
        => /\ out.err = "none"
           /\ ~out.opened
           /\ out.pairs = <<texts[out.idx]>>

(* C2: a BOWCorpus bound from a list of (label, content) pairs, tokenize   *)
(* unset: each pull of an iteration yields the bound pair of the next item *)
(* unchanged, and the iteration goes on with the item after it.            *)
C2_IterYieldsBoundPairs ==
    (cls = "BOW" /\ out.op = "next" /\ out.idx # 0
        /\ BoundFrom(TextSource) /\ tokenize = "None")
        => /\ out.err = "none"
           /\ out.pairs = <<TextSource[out.idx]>>
           /\ GoesOn

(* C3: after set_params(chunksize=c, overlap=0, roundedsize=True), for an  *)
(* item of n >= c tokens the chunks yielded, concatenated in order, are    *)
(* the item's token sequence.                                              *)
C3_RoundTrip ==
    (Chunked /\ chunksize.t = "int" /\ chunksize.v >= 1 /\ overlap = PyInt(0)
        /\ Truthy(asked_rounded) /\ ~Truthy(nchunks)
        /\ Len(out.text.val) >= chunksize.v)
        => /\ out.err = "none"
           /\ Contents(out.pairs) = out.text.val

(* C4: for a chunked item (resolved chunk size <= token count) and a       *)
(* resolved overlap with 0 < overlap < chunk size, the boundaries computed *)
(* are token offsets with stop[k] - start[k+1] = overlap for adjacent k,   *)
(* whether roundedsize is off or on.                                       *)
C4_OverlapInvariant ==
    (Chunked /\ ~out.cached /\ ~Truthy(nchunks))
        => LET n  == Len(out.text.val)
               c  == ResolveSize(n)
               ov == ResolveOverlap(c)
               e  == chunkindices[out.idx]
           IN  (n >= 1 /\ c <= n /\ 0 < ov /\ ov < c)
                   => /\ e.kind = "list"
                      /\ ~e.float
                      /\ \A k \in 1..(Len(e.idx) - 1) :
                             e.idx[k][2] - e.idx[k + 1][1] = ov

(* C5: a step that changes a chunk-policy field (roundedsize counted as on *)
(* or off) leaves no entry in the chunk-boundary cache.                    *)
PolicyValue == <<chunksize, nchunks, overlap, Truthy(roundedsize), minsize, upscale>>

C5_PolicyChangeClearsCache ==
    [][PolicyValue' # PolicyValue
          => \A k \in DOMAIN chunkindices' : chunkindices'[k] = NoEntry]_vars

(* C6: set_params is a merge-only setter: after a call that returns, each  *)
(* field passed holds the value passed and each omitted field its old one. *)
Merged(old, given) == IF IsNone(given) THEN old ELSE given

C6_MergeOnly ==
    [][\A c \in ChunkCalls :
          (ChunkSetParams(c.a, c.kw) /\ out'.err = "none")
              => /\ chunksize' = Merged(chunksize, c.a.chunksize)
                 /\ nchunks' = Merged(nchunks, c.a.nchunks)
                 /\ overlap' = Merged(overlap, c.a.overlap)
                 /\ roundedsize' = Merged(roundedsize, c.a.roundedsize)
                 /\ minsize' = Merged(minsize, c.a.minsize)
                 /\ upscale' = Merged(upscale, c.a.upscale)
                 /\ tokenize' = (IF c.kw.tokenize = "None" THEN tokenize ELSE c.kw.tokenize)
                 /\ tokenizer' = (IF c.kw.tokenizer = "None" THEN tokenizer ELSE c.kw.tokenizer)
                 /\ stopwords' = (IF c.kw.stopwords.isnone THEN stopwords ELSE c.kw.stopwords)
                 /\ gowords' = (IF c.kw.gowords.isnone THEN gowords ELSE c.kw.gowords)
                 /\ keep_in_memory' = (IF c.kw.keep_in_memory = "None" THEN keep_in_memory
                                       ELSE c.kw.keep_in_memory = "True")]_vars

\* the item handed to chunk_text is smaller than the resolved chunk size
SmallItem ==
    /\ Chunked /\ ~Truthy(nchunks)
    /\ Len(out.text.val) >= 1
    /\ ResolveSize(Len(out.text.val)) > Len(out.text.val)

(* C7: an item smaller than the resolved chunk size, minsize set: no pair  *)
(* is yielded for the item and the iteration goes on with the next item.   *)
C7_MinsizeEmitsNothing ==
    (SmallItem /\ Truthy(minsize))
        => /\ out.err = "none"
           /\ out.pairs = <<>>
           /\ GoesOn

(* C8: an item of n >= 1 tokens smaller than the resolved chunk size, with *)
(* minsize and upscale off: exactly one pair is yielded, the original      *)
(* label with the full token sequence, on every access.                    *)
C8_SmallItemUnchanged ==
    (SmallItem /\ ~Truthy(minsize) /\ ~Truthy(upscale))
        => /\ out.err = "none"
           /\ out.pairs = <<Pair(texts[out.idx].label, out.text)>>

(* C9: an item of n >= 1 tokens smaller than the resolved chunk size c,    *)
(* minsize off, upscale on: exactly one pair is yielded, with the original *)
(* label and c tokens, each a token of the item.                           *)
C9_UpscaleToChunkSize ==
    (SmallItem /\ ~Truthy(minsize) /\ Truthy(upscale))
        => /\ out.err = "none"
           /\ Len(out.pairs) = 1
           /\ out.pairs[1].label = texts[out.idx].label
           /\ out.pairs[1].content.kind = "list"
           /\ Len(out.pairs[1].content.val) = ResolveSize(Len(out.text.val))
           /\ \A k \in 1..Len(out.pairs[1].content.val) :
                  \E j \in 1..Len(out.text.val) :
                      out.pairs[1].content.val[k] = out.text.val[j]

(* C10: integer chunksize c >= 1, overlap 0, roundedsize off: an item of   *)
(* n >= c tokens yields floor(n / c) pairs, the k-th (from 0) labelled     *)
(* <label>_<k in 4 digits> with the tokens k*c .. (k+1)*c - 1, and the     *)
(* iteration goes on with the next item.                                   *)
C10_PlainChunks ==
    (Chunked /\ chunksize.t = "int" /\ chunksize.v >= 1 /\ overlap = PyInt(0)
        /\ ~Truthy(roundedsize) /\ ~Truthy(asked_rounded) /\ ~Truthy(nchunks)
        /\ Len(out.text.val) >= chunksize.v)
        => LET c == chunksize.v
               n == Len(out.text.val)
           IN  /\ out.err = "none"
               /\ Len(out.pairs) = n \div c
               /\ \A k \in 1..Len(out.pairs) :
                      out.pairs[k] =
                          Pair(ChunkLabel(texts[out.idx].label, k - 1),
                               List(SubSeq(out.text.val, (k - 1) * c + 1, k * c)))
               /\ GoesOn

(* C11: indexing a ChunkCorpus with an integer i returns the list of chunk *)
(* pairs of item i, the pairs a full iteration emits for item i under the  *)
(* same policy.                                                            *)
C11_GetItemReturnsChunks ==
    (cls = "Chunk" /\ out.op = "getitem" /\ out.idx # 0 /\ out.text.kind = "list")
        => LET c == chunk_text(texts[out.idx].label, out.text.val, out.idx)
           IN  c.err = "none"
                   => /\ out.err = "none"
                      /\ out.pairs = c.pairs

\* Python's L[start:stop:step] for 0 <= start, 0 <= stop <= len(L), step >= 1,
\* each possibly omitted (None)
PySlice(L, key) ==
    LET a == IF IsNone(key.start) THEN 0 ELSE key.start.v
        b == IF IsNone(key.stop) THEN Len(L) ELSE key.stop.v
        c == IF IsNone(key.step) THEN 1 ELSE key.step.v
    IN  IF b <= a THEN <<>>
        ELSE [k \in 1..((b - a + c - 1) \div c) |-> L[a + (k - 1) * c + 1]]

(* C12: a BOWCorpus bound from a list L of pairs, tokenize unset: the pull *)
(* number n (from 0) from corpus[start:stop:step], with stop <= len(L),    *)
(* yields the pair number n of L[start:stop:step], and ends the generator  *)
(* when L[start:stop:step] has no such pair (at once when stop = 0).       *)
C12_SliceYieldsListSlice ==
    [][(SliceNext /\ BoundFrom(TextSource) /\ tokenize = "None"
            /\ (IsNone(gen.key.stop) \/ gen.key.stop.v <= Len(TextSource)))
          => LET want == PySlice(TextSource, gen.key)
             IN  IF gen.pos < Len(want)
                 THEN out'.err = "none" /\ out'.pairs = <<want[gen.pos + 1]>>
                 ELSE out'.err = "StopIteration" /\ out'.pairs = <<>>]_vars

\* the source the corpus was bound from, and the tokens of its item i
\* before any filtering
Source == IF BoundFrom(FileSource) THEN FileSource ELSE TextSource

SourceTokens(i) ==
    LET c   == Source[i].content
        raw == IF c.kind = "path" THEN FileText(c.val[1]) ELSE c
    IN  IF raw.kind = "list" THEN raw.val ELSE Tokenizer(tokenizer, raw.val)

(* C13: tokenize on, a non-empty stopword set S and a non-empty goword set *)
(* G: the token sequence an access returns for an item is the subsequence  *)
(* of the item's tokens that are in G and not in S.                        *)
C13_StopThenGo ==
    (Accessed /\ cls = "BOW" /\ out.err = "none" /\ tokenize = "True"
        /\ ~stopwords.isnone /\ stopwords.w # {}
        /\ ~gowords.isnone /\ gowords.w # {})
        => out.pairs = <<Pair(Source[out.idx].label,
                              List(Filter(SourceTokens(out.idx),
                                          gowords.w \ stopwords.w)))>>

\* the spec's example: "the" is in S and in G, and [rough, winds, the, buds]
\* comes back as [rough]
C13_Witness ==
    /\ Accessed /\ cls = "BOW" /\ out.err = "none" /\ tokenize = "True"
    /\ BoundFrom(FileSource) /\ out.idx = 2
    /\ stopwords = Words({"the"}) /\ ~gowords.isnone /\ "the" \in gowords.w
    /\ SourceTokens(2) = <<"rough", "winds", "the", "buds">>
    /\ out.pairs = <<Pair("f2.txt", List(<<"rough">>))>>

\* item out.idx is an in-memory item bound as a raw string that an earlier
\* access, made under tokenize=True, returned as a token list (only such an
\* access records a token count for a raw string), and no call of fit since
\* has made the corpus file-backed
TokenizedBefore ==
    /\ Accessed /\ cls = "BOW" /\ BoundFrom(TextSource) /\ ~filenames
    /\ TextSource[out.idx].content.kind = "str"
    /\ n_tokens[out.idx] # NoCount

FitEmpty ==
    \/ \E fn \in BOOLEAN : Fit(<<>>, fn)
    \/ \E fn \in BOOLEAN : FitDict(EmptyDict, fn)
    \/ \E fn \in BOOLEAN : FitPattern("", fn)
    \/ \E fn \in BOOLEAN : FitPattern("none/*.txt", fn)

(* C15: fit with an empty source fails with the configuration error (the   *)
(* exit after logging.error) and binds nothing: texts, the file-backed     *)
(* flag and the per-item state lists stay as they were.                    *)
C15_EmptySourceBindsNothing ==
    [][FitEmpty => (out'.err = "SystemExit" /\ UNCHANGED bowvars)]_vars

\* the chunk size the policy asks for an item of n tokens: floor(n / nchunks)
\* when nchunks is set, else the chunksize field resolved
AskedSize(n) == IF Truthy(nchunks) THEN n \div nchunks.v ELSE ResolveSize(n)

\* the last operation ran the chunk computation on a non-empty item (the
\* item had no cache entry when the access began)
Computed == Chunked /\ ~out.cached /\ Len(out.text.val) >= 1

(* C16: when the chunk size resolved for an item is <= 0, the chunk        *)
(* computation fails: no pair is yielded and no boundary list is cached    *)
(* for the item.                                                           *)
C16_NonPositiveSizeFails ==
    (Computed /\ AskedSize(Len(out.text.val)) <= 0)
        => /\ out.err # "none"
           /\ out.pairs = <<>>
           /\ chunkindices[out.idx] = NoEntry

(* C17: when the resolved overlap is >= the resolved chunk size, for an    *)
(* item with at least chunk-size tokens, the chunk computation fails: no   *)
(* pair is yielded and no boundary list, not even an empty one, is cached. *)
C17_OverlapNotBelowSizeFails ==
    (Computed /\ ~Truthy(nchunks))
        => LET n == Len(out.text.val)
               c == ResolveSize(n)
           IN  (c >= 1 /\ n >= c /\ ResolveOverlap(c) >= c)
                   => /\ out.err # "none"
                      /\ out.pairs = <<>>
                      /\ chunkindices[out.idx] = NoEntry

(* C18: with nchunks = k, 1 <= k <= n, overlap 0 and roundedsize off, an   *)
(* item of n tokens yields at least k chunks of floor(n / k) tokens each,  *)
(* whatever the chunksize field holds.                                     *)
C18_NChunksSetsSize ==
    (Computed /\ Truthy(nchunks) /\ nchunks.v >= 1
        /\ nchunks.v <= Len(out.text.val)
        /\ overlap = PyInt(0) /\ ~Truthy(roundedsize) /\ ~Truthy(asked_rounded))
        => /\ out.err = "none"
           /\ Len(out.pairs) >= nchunks.v
           /\ \A k \in 1..Len(out.pairs) :
                  /\ out.pairs[k].content.kind = "list"
                  /\ Len(out.pairs[k].content.val) = Len(out.text.val) \div nchunks.v

(* C19: slice access is lazy: creating corpus[start:stop:step] processes   *)
(* no item (no read, no tokenization, no memoization, no boundary list);   *)
(* the items are processed when the consumer pulls their pairs.            *)
C19_SliceCreationProcessesNothing ==
    [][(\E key \in SliceKeys : GetSlice(key) \/ ChunkGetSlice(key))
          => UNCHANGED <<bowvars, chunkindices>>]_vars

\* the tokens item i yields under the current configuration
OwnTokens(i) == process_text(i, texts[i].label, texts[i].content).pair.content.val

\* entry is the boundary list the current policy gives for a text of n tokens
OwnEntry(entry, n) ==
    LET c    == ResolveSize(n)
        ov   == ResolveOverlap(c)
        step == IF ov # 0 THEN c - ov ELSE c
    IN  /\ n >= 1 /\ ~Truthy(nchunks) /\ c <= n /\ step # 0
        /\ ~(Truthy(roundedsize) /\ Starts(n, c, step) = <<>>)
        /\ entry = Boundaries(n, c, step)

(* C20: an access (iteration, index, slice) that stores a boundary list in *)
(* chunkindices[i] stores the list computed from item i's own tokens under *)
(* the current policy, never one computed from another item.               *)
C20_CacheEntryIsOwn ==
    [][\A i \in DOMAIN chunkindices :
          (i \in DOMAIN chunkindices' /\ chunkindices'[i] # chunkindices[i]
              /\ chunkindices'[i].kind = "list")
              => OwnEntry(chunkindices'[i], Len(OwnTokens(i)))]_vars

(* C21: a step that changes the token sequence item i yields (a change of  *)
(* stopwords, gowords, tokenizer or tokenize) leaves for item i no cached  *)
(* boundary list but the one of its new token sequence, so that the next   *)
(* access, which slices with the cached list if there is one, slices with  *)
(* boundaries computed from the new tokens.                                *)
C21_TokenChangeRecomputes ==
    [][\A i \in DOMAIN chunkindices :
          (bound /\ texts' = texts /\ i \in DOMAIN chunkindices'
              /\ OwnTokens(i)' # OwnTokens(i)
              /\ chunkindices'[i].kind = "list")
              => OwnEntry(chunkindices[i], Len(OwnTokens(i)))']_vars

\* what item i yields when it is accessed again in the present state: as the
\* next item of an iteration, and as the one item of the slice [i-1:i] (whose
\* position in the slice is the cache index the slice branch uses)
AgainByIter(i)  == chunk_text(texts[i].label, OwnTokens(i), i)
AgainBySlice(i) == chunk_text(texts[i].label, OwnTokens(i), 1)

(* C22: repeated access is idempotent: once an access has emitted the      *)
(* pairs of an item, a second access to the same item under the unchanged  *)
(* policy and configuration, by iteration or by slice, emits the same      *)
(* sequence of (label, content) pairs.                                     *)
C22_SecondAccessSamePairs ==
    (Chunked /\ out.op = "next" /\ out.err = "none")
        => /\ AgainByIter(out.idx).err = "none"
           /\ AgainByIter(out.idx).pairs = out.pairs
           /\ AgainBySlice(out.idx).err = "none"
           /\ AgainBySlice(out.idx).pairs = out.pairs

\* the tokens the unrounded chunks of a text of n tokens leave after the
\* last stop
Leftover(n) ==
    LET c    == ResolveSize(n)
        ov   == ResolveOverlap(c)
        step == IF ov # 0 THEN c - ov ELSE c
        st   == Starts(n, c, step)
    IN  n - (st[Len(st)] + c)

(* C23: with roundedsize on, for an item of n tokens cut with chunk size c *)
(* (1 <= c <= n, 0 <= overlap < c): the boundaries are integers, the last  *)
(* stop is n, the first Leftover(n) chunks have c + 1 tokens and the       *)
(* others c, and with overlap 0 the chunks are contiguous from offset 0.   *)
C23_RoundedSpreadsLeftover ==
    LET n     == Len(out.text.val)
        c     == ResolveSize(n)
        ov    == ResolveOverlap(c)
        entry == chunkindices[out.idx]
        idx   == entry.idx
        m     == Len(idx)
    IN  (Computed /\ Truthy(roundedsize) /\ ~Truthy(nchunks)
            /\ c >= 1 /\ c <= n /\ ov >= 0 /\ ov < c)
            => /\ out.err = "none"
               /\ entry.kind = "list" /\ ~entry.float /\ m >= 1
               /\ idx[m][2] = n
               /\ \A k \in 1..m :
                      idx[k][2] - idx[k][1] = IF k <= Leftover(n) THEN c + 1 ELSE c
               /\ ov = 0 => /\ idx[1][1] = 0
                            /\ \A k \in 1..(m - 1) : idx[k][2] = idx[k + 1][1]

(* C24: between two binds the residency flag of an item is monotonic: no   *)
(* access and no set_params call turns in_memory[i] from True to False,    *)
(* and it turns from False to True only in an access to item i made while  *)
(* keep_in_memory is set, which stores on the item the pair it returns.    *)
C24_ResidencyMonotonic ==
    [][out'.op # "fit"
          => \A i \in DOMAIN in_memory :
                /\ i \in DOMAIN in_memory'
                /\ in_memory[i] => in_memory'[i]
                /\ (~in_memory[i] /\ in_memory'[i])
                      => /\ Accessed' /\ out'.idx = i /\ out'.err = "none"
                         /\ keep_in_memory
                         /\ out'.pairs = <<texts'[i]>>]_vars

\* an access has just made its item resident
C24_Witness ==
    /\ Accessed /\ out.err = "none" /\ ~out.resident
    /\ in_memory[out.idx] /\ keep_in_memory
    /\ out.pairs = <<texts[out.idx]>>

(* C25: the tokenization status of an item is set once and then fixed: for *)
(* an item bound with its content in memory, tokenized[i] stays None from  *)
(* the bind until the first access to item i, that access sets it to True  *)
(* (recording the length of the list as the token count) iff the bound     *)
(* content is a token list and to False otherwise, and no later access or  *)
(* set_params call changes a status that is True or False.                 *)
C25_StatusSetOnce ==
    [][out'.op # "fit"
          => \A i \in DOMAIN tokenized :
                /\ i \in DOMAIN tokenized'
                /\ tokenized[i] # "None" => tokenized'[i] = tokenized[i]
                /\ (tokenized[i] = "None" /\ ~(Accessed' /\ out'.idx = i))
                      => tokenized'[i] = "None"
                /\ (tokenized[i] = "None" /\ Accessed' /\ out'.idx = i
                        /\ texts[i].content.kind # "path")
                      => IF texts[i].content.kind = "list"
                         THEN /\ tokenized'[i] = "True"
                              /\ n_tokens'[i] = Len(texts[i].content.val)
                         ELSE tokenized'[i] = "False"]_vars

\* what the caller asked for: a restriction is supplied when its list names
\* at least one value, and a record satisfies it when it carries the field
\* with one of the values
Satisfies(e) ==
    /\ act # {} => ("act" \in e.has /\ e.act \in act)
    /\ scene # {} => ("scene" \in e.has /\ e.scene \in scene)
    /\ speaker # {} => ("speaker" \in e.has /\ e.speaker \in speaker)

\* the texts of the records of rs that satisfy the restrictions and have a
\* text, joined in record order
JoinedTexts(rs) ==
    LET Wanted(e) == Satisfies(e) /\ "text" \in e.has
        ws == SelectSeq(rs, Wanted)
    IN  Flatten([k \in 1..Len(ws) |-> ws[k].text])

(* C26: the DramaCorpus filter is the conjunction of the restrictions the  *)
(* caller supplied: with merge on (and no tokenization) an access returns  *)
(* the texts of the parsed records that satisfy every supplied act, scene  *)
(* and speaker restriction and have a text, joined in record order; with   *)
(* no restriction supplied (the default) these are all the texts.          *)
C26_FilterIsConjunction ==
    (cls = "Drama" /\ Accessed /\ out.err = "none" /\ merge /\ ~corpus_tokenize)
        => out.pairs = <<Pair(texts[out.idx].label,
                              Str(JoinedTexts(play_parser(texts[out.idx].label,
                                                          texts[out.idx].content))))>>

(* C27: rebinding resets the backing kind: whether an access reads a file  *)
(* is determined by the source bound last.  An access to a corpus bound    *)
(* last to in-memory pairs opens no file and returns, and an access opens  *)
(* a file only when the corpus was bound last to files.                    *)
C27_LastSourceDecidesReads ==
    (cls = "BOW" /\ Accessed)
        => /\ out.opened => BoundFrom(FileSource)
           /\ BoundFrom(TextSource) => (~out.opened /\ out.err = "none")

(* C28: iterating a ChunkCorpus does not fail on an item whose processed   *)
(* token sequence is empty: for such an item (no boundary list cached) the *)
(* pull raises nothing, yields at most one pair, which carries the item's  *)
(* label, and the iteration goes on with the next item.                    *)
C28_EmptyItemDoesNotFail ==
    (Chunked /\ out.text.val = <<>> /\ ~out.cached)
        => /\ out.err = "none"
           /\ Len(out.pairs) <= 1
           /\ \A k \in 1..Len(out.pairs) : out.pairs[k].label = texts[out.idx].label
           /\ GoesOn

(* C29: for a resolved chunk size c >= 1, an overlap 0 <= ov < c and an    *)
(* item of n >= c tokens, the boundary list computed and cached for the    *)
(* item is non-empty and well-formed: start[0] = 0, start[k] < stop[k] <=  *)
(* n, starts and stops strictly increasing; with roundedsize off every     *)
(* chunk has c tokens and fewer than c - ov trailing tokens are uncovered. *)
(* (The numbers of a float list are idx[k][j] / den.)                      *)
C29_BoundariesWellFormed ==
    LET n     == Len(out.text.val)
        c     == ResolveSize(n)
        ov    == ResolveOverlap(c)
        entry == chunkindices[out.idx]
        idx   == entry.idx
        m     == Len(idx)
    IN  (Computed /\ ~Truthy(nchunks) /\ c >= 1 /\ ov >= 0 /\ ov < c /\ n >= c)
            => /\ entry.kind = "list" /\ m >= 1
               /\ idx[1][1] = 0
               /\ \A k \in 1..m : idx[k][1] < idx[k][2] /\ idx[k][2] <= n * entry.den
               /\ \A k \in 1..(m - 1) : /\ idx[k][1] < idx[k + 1][1]
                                         /\ idx[k][2] < idx[k + 1][2]
               /\ ~Truthy(roundedsize)
                     => /\ ~entry.float
                        /\ \A k \in 1..m : idx[k][2] - idx[k][1] = c
                        /\ n - idx[m][2] < c - ov

\* the per-item lists have one entry per bound item
ListsParallel ==
    bound => /\ Len(in_memory) = Len(texts)
             /\ Len(tokenized) = Len(texts)
             /\ Len(n_tokens) = Len(texts)
             /\ cls = "Chunk" => Len(chunkindices) = Len(texts)

(* C30: after any sequence of fit, set_params and access operations the    *)
(* per-item lists (in_memory, tokenized, n_tokens and, for a ChunkCorpus,  *)
(* chunkindices) have exactly len(texts) entries each; no operation but a  *)
(* fit changes the number of bound items; and a BOWCorpus access to item i *)
(* changes only entry i of these lists and of texts.                       *)
C30_ListsStayParallel ==
    [][/\ ListsParallel'
       /\ out'.op # "fit" => (bound' = bound /\ Len(texts') = Len(texts))
       /\ (cls = "BOW" /\ Accessed')
             => \A k \in DOMAIN texts \ {out'.idx} :
                   /\ texts'[k] = texts[k]
                   /\ in_memory'[k] = in_memory[k]
                   /\ tokenized'[k] = tokenized[k]
                   /\ n_tokens'[k] = n_tokens[k]]_vars

\* an access to the first item of a file-backed BOWCorpus has stored its
\* pair and its token count, and the entries of the second item are as the
\* bind left them
C30_Witness ==
    /\ cls = "BOW" /\ Accessed /\ out.idx = 1 /\ out.err = "none" /\ out.opened
    /\ Len(texts) = 2
    /\ in_memory = <<TRUE, FALSE>>
    /\ n_tokens[1] # NoCount /\ n_tokens[2] = NoCount
    /\ texts[1].content.kind = "list" /\ texts[2].content.kind = "path"

====
